---- MODULE Spec2Model ----
(***************************************************************************)
(* Model of the LMS demo backend: the in-memory Users and Courses stores   *)
(* (UsersService, CoursesService), the login service (AuthService) and the *)
(* controllers that route requests to them.                                *)
(*                                                                         *)
(* Text that the code searches, compares or concatenates (names, emails,   *)
(* titles, descriptions) is a sequence of one-character strings, so that   *)
(* toLowerCase, includes and template concatenation are computed.  Text    *)
(* that is only stored or compared whole (phone, bio, passwords, tags,     *)
(* messages) is a plain string.  Prices are in cents.  Dates are day       *)
(* numbers counted from 2025-12-31 (2026-01-01 is day 1).                  *)
(***************************************************************************)
EXTENDS Integers, Sequences, FiniteSets, TLC

\* ------------------------------------------------------------------------
\* Bounds of the model
\* ------------------------------------------------------------------------
MaxId == 5          \* ids are allocated while the counter is <= MaxId
MaxTicks == 1        \* days the clock may advance after the process starts
MaxPending == 2     \* create calls suspended at their await at one time
MaxLimit == 3       \* page sizes tried by the pagination properties
MaxCalls == 3       \* calls made in one run of the model

\* ------------------------------------------------------------------------
\* JavaScript values and text helpers
\* ------------------------------------------------------------------------
\* the value of an object property that is present but was never given
Undefined == "undefined"

\* obj.k is not undefined: k is an own property of the object
Has(obj, k) == k \in DOMAIN obj

\* { ...a, ...b }: every property of b overrides the one of a
Spread(a, b) ==
  [k \in (DOMAIN a) \cup (DOMAIN b) |-> IF k \in DOMAIN b THEN b[k] ELSE a[k]]

UpperChars == <<"A","B","C","D","E","F","G","H","I","J","K","L","M",
                "N","O","P","Q","R","S","T","U","V","W","X","Y","Z">>
LowerChars == <<"a","b","c","d","e","f","g","h","i","j","k","l","m",
                "n","o","p","q","r","s","t","u","v","w","x","y","z">>

\* the lower-case letter of each upper-case letter
LowerOf ==
  [c \in {UpperChars[i] : i \in 1..26} |->
     LowerChars[CHOOSE i \in 1..26 : UpperChars[i] = c]]

LowerChar(c) == IF c \in DOMAIN LowerOf THEN LowerOf[c] ELSE c

\* String.prototype.toLowerCase
ToLowerCase(s) == [i \in 1..Len(s) |-> LowerChar(s[i])]

\* String.prototype.includes: sub occurs in s as a contiguous substring
Includes(s, sub) ==
  \E i \in 0..(Len(s) - Len(sub)) : \A j \in 1..Len(sub) : s[i + j] = sub[j]

\* Array.prototype.filter, keeping the relative order; keep[i] is the value
\* of the callback on the i-th element
Filter(seq, keep) ==
  LET F[i \in 0..Len(seq)] ==
        IF i = 0 THEN <<>>
        ELSE IF keep[i] THEN Append(F[i - 1], seq[i]) ELSE F[i - 1]
  IN F[Len(seq)]

Min2(a, b) == IF a < b THEN a ELSE b
Max2(a, b) == IF a > b THEN a ELSE b

\* variant of Slice: the element at index end is taken too
Slice_IncludesEnd(seq, start, end) ==
  LET n == Len(seq)
      from == IF start < 0 THEN Max2(n + start, 0) ELSE Min2(start, n)
      to == IF end < 0 THEN Max2(n + end + 1, 0) ELSE Min2(end + 1, n)
  IN SubSeq(seq, from + 1, to)

\* Array.prototype.slice(start, end): a negative index counts from the end,
\* both indices are clamped to [0, length]
Slice(seq, start, end) ==
  LET n == Len(seq)
      from == IF start < 0 THEN Max2(n + start, 0) ELSE Min2(start, n)
      to == IF end < 0 THEN Max2(n + end, 0) ELSE Min2(end, n)
  IN SubSeq(seq, from + 1, to)

\* Array.prototype.findIndex on the id, 1-based; 0 stands for -1
FindIndex(seq, id) ==
  IF \E i \in 1..Len(seq) : seq[i].id = id
  THEN CHOOSE i \in 1..Len(seq) :
         seq[i].id = id /\ \A j \in 1..(i - 1) : seq[j].id # id
  ELSE 0

\* variant of Splice: the last element is moved into the place of the one
\* that is taken out
Splice_SwapRemove(seq, index) ==
  IF index = Len(seq) THEN SubSeq(seq, 1, Len(seq) - 1)
  ELSE SubSeq([seq EXCEPT ![index] = seq[Len(seq)]], 1, Len(seq) - 1)

\* Array.prototype.splice(index, 1)
Splice(seq, index) == SubSeq(seq, 1, index - 1) \o SubSeq(seq, index + 1, Len(seq))

\* ------------------------------------------------------------------------
\* Text constants of the source
\* ------------------------------------------------------------------------
AdminEmail == <<"a","d","m","i","n","@","l","m","s",".","c","o","m">>
InstructorEmail == <<"i","n","s","t","r","u","c","t","o","r","@","l","m","s",".","c","o","m">>
StudentEmail == <<"s","t","u","d","e","n","t","@","l","m","s",".","c","o","m">>
DemoUserEmail == <<"u","s","e","r","@","e","x","a","m","p","l","e",".","c","o","m">>
JaneSmith == <<"J","a","n","e"," ","S","m","i","t","h">>
AdminUser == <<"A","d","m","i","n"," ","U","s","e","r">>
JohnDoe == <<"J","o","h","n"," ","D","o","e">>

\* ------------------------------------------------------------------------
\* UsersService: the seeded store
\* ------------------------------------------------------------------------
SeedUsers == <<
  [id |-> 1, email |-> AdminEmail,
   firstName |-> <<"A","d","m","i","n">>, lastName |-> <<"U","s","e","r">>,
   fullName |-> AdminUser, role |-> "admin", status |-> "active",
   phone |-> "+1234567890", bio |-> "System Administrator",
   createdAt |-> 1, updatedAt |-> 1],
  [id |-> 2, email |-> InstructorEmail,
   firstName |-> <<"J","a","n","e">>, lastName |-> <<"S","m","i","t","h">>,
   fullName |-> JaneSmith, role |-> "instructor", status |-> "active",
   phone |-> "+1234567891",
   bio |-> "Senior Instructor with 10+ years experience",
   createdAt |-> 15, updatedAt |-> 15],
  [id |-> 3, email |-> StudentEmail,
   firstName |-> <<"B","o","b">>, lastName |-> <<"J","o","h","n","s","o","n">>,
   fullName |-> <<"B","o","b"," ","J","o","h","n","s","o","n">>,
   role |-> "student", status |-> "active",
   createdAt |-> 32, updatedAt |-> 32] >>

UsersFirstId == 4

\* ------------------------------------------------------------------------
\* CoursesService: the seeded store
\* ------------------------------------------------------------------------
SeedInstructor == [id |-> 2, name |-> JaneSmith, email |-> InstructorEmail]

SeedCourses == <<
  [id |-> 1,
   title |-> <<"C","o","m","p","l","e","t","e"," ","N","e","s","t","J","S"," ","B","o","o","t","c","a","m","p">>,
   description |-> <<"L","e","a","r","n"," ","N","e","s","t","J","S"," ","f","r","o","m"," ","s","c","r","a","t","c","h"," ","t","o"," ","a","d","v","a","n","c","e","d"," ","l","e","v","e","l"," ","w","i","t","h"," ","r","e","a","l","-","w","o","r","l","d"," ","p","r","o","j","e","c","t","s">>,
   level |-> "beginner", duration |-> 20, price |-> 9999,
   status |-> "published", instructor |-> SeedInstructor,
   tags |-> <<"nestjs", "backend", "typescript">>,
   rating |-> 45, enrolledStudents |-> 150,
   createdAt |-> 32, updatedAt |-> 41],
  [id |-> 2,
   title |-> <<"A","d","v","a","n","c","e","d"," ","T","y","p","e","S","c","r","i","p","t"," ","P","a","t","t","e","r","n","s">>,
   description |-> <<"M","a","s","t","e","r"," ","a","d","v","a","n","c","e","d"," ","T","y","p","e","S","c","r","i","p","t"," ","c","o","n","c","e","p","t","s"," ","a","n","d"," ","d","e","s","i","g","n"," ","p","a","t","t","e","r","n","s">>,
   level |-> "advanced", duration |-> 15, price |-> 14999,
   status |-> "published", instructor |-> SeedInstructor,
   tags |-> <<"typescript", "advanced", "patterns">>,
   rating |-> 48, enrolledStudents |-> 89,
   createdAt |-> 15, updatedAt |-> 36],
  [id |-> 3,
   title |-> <<"R","e","a","c","t"," ","F","u","n","d","a","m","e","n","t","a","l","s">>,
   description |-> <<"B","u","i","l","d"," ","m","o","d","e","r","n"," ","w","e","b"," ","a","p","p","l","i","c","a","t","i","o","n","s"," ","w","i","t","h"," ","R","e","a","c","t">>,
   level |-> "beginner", duration |-> 12, price |-> 7999,
   status |-> "published", instructor |-> SeedInstructor,
   tags |-> <<"react", "frontend", "javascript">>,
   rating |-> 43, enrolledStudents |-> 230,
   createdAt |-> 20, updatedAt |-> 39] >>

CoursesFirstId == 4

\* the day the process starts: the day after the latest seeded date
StartTime == SeedCourses[1].updatedAt + 1
MaxTime == StartTime + MaxTicks


\* ------------------------------------------------------------------------
\* State
\* ------------------------------------------------------------------------
VARIABLES
  users,            \* UsersService.users
  usersNextId,      \* UsersService.nextId
  courses,          \* CoursesService.courses
  coursesNextId,    \* CoursesService.nextId
  pending,          \* UsersService.create calls suspended at their await,
                    \* in the order their continuations will run
  now,              \* the value new Date() returns
  held,             \* the access tokens a client received from login
  req,              \* the last call that returned
  resp,             \* what it returned or threw
  removedUserIds,   \* history: ids of users removed so far
  removedCourseIds, \* history: ids of courses removed so far
  calls,            \* history: number of calls made so far
  jwtExpiresInEnv   \* JWT_EXPIRES_IN of the process, in days: <<>> when it
                    \* is not set, <<n>> when it is

vars == <<users, usersNextId, courses, coursesNextId, pending, now, held,
          req, resp, removedUserIds, removedCourseIds, calls, jwtExpiresInEnv>>

\* ------------------------------------------------------------------------
\* Responses
\* ------------------------------------------------------------------------
Ok(body) == [kind |-> "ok", body |-> body]

\* new NotFoundException(`${what} with ID ${id} not found`)
NotFoundException(what, id) ==
  [kind |-> "error", error |-> "NotFoundException", statusCode |-> 404,
   message |-> <<what, "with ID", id, "not found">>]

\* new ConflictException('User with this email already exists')
ConflictException ==
  [kind |-> "error", error |-> "ConflictException", statusCode |-> 409,
   message |-> <<"User with this email already exists">>]

\* new UnauthorizedException('Invalid credentials')
UnauthorizedException ==
  [kind |-> "error", error |-> "UnauthorizedException", statusCode |-> 401,
   message |-> <<"Invalid credentials">>]

\* ------------------------------------------------------------------------
\* UsersService
\* ------------------------------------------------------------------------
\* a query property that is present and not falsy ('' and 0 are falsy)
TruthyText(q, k) == Has(q, k) /\ q[k] # <<>>
TruthyEnum(q, k) == Has(q, k) /\ q[k] # ""
TruthyNum(q, k) == Has(q, k) /\ q[k] # 0

UserMatchesSearch(user, search) ==
  LET searchLower == ToLowerCase(search)
  IN \/ Includes(ToLowerCase(user.firstName), searchLower)
     \/ Includes(ToLowerCase(user.lastName), searchLower)
     \/ Includes(ToLowerCase(user.email), searchLower)

\* the filters of UsersService.findAll, applied in the order of the code
UsersFiltered(us, query) ==
  LET BySearch(s) == [i \in 1..Len(s) |-> UserMatchesSearch(s[i], query.search)]
      ByRole(s) == [i \in 1..Len(s) |-> s[i].role = query.role]
      ByStatus(s) == [i \in 1..Len(s) |-> s[i].status = query.status]
      f1 == IF TruthyText(query, "search") THEN Filter(us, BySearch(us)) ELSE us
      f2 == IF TruthyEnum(query, "role") THEN Filter(f1, ByRole(f1)) ELSE f1
      f3 == IF TruthyEnum(query, "status") THEN Filter(f2, ByStatus(f2)) ELSE f2
  IN f3

\* const page = query.page || 1
PageOf(query) == IF TruthyNum(query, "page") THEN query.page ELSE 1
\* const limit = query.limit || 10
LimitOf(query) == IF TruthyNum(query, "limit") THEN query.limit ELSE 10

\* variant of Paginate: the first page starts one page in
Paginate_StartsAtPage(filtered, query) ==
  LET total == Len(filtered)
      page == PageOf(query)
      limit == LimitOf(query)
      start == page * limit
      end == start + limit
  IN [data |-> Slice(filtered, start, end), total |-> total,
      page |-> page, limit |-> limit]

\* total, page, limit, start, end and the slice, shared by both findAll
Paginate(filtered, query) ==
  LET total == Len(filtered)
      page == PageOf(query)
      limit == LimitOf(query)
      start == (page - 1) * limit
      end == start + limit
  IN [data |-> Slice(filtered, start, end), total |-> total,
      page |-> page, limit |-> limit]

\* variant of UsersFindAllResult: total is the size of the store
UsersFindAllResult_TotalOfStore(us, query) ==
  [Paginate(UsersFiltered(us, query), query) EXCEPT !.total = Len(us)]

UsersFindAllResult(us, query) == Paginate(UsersFiltered(us, query), query)

UsersFindOneResult(us, id) ==
  IF FindIndex(us, id) = 0 THEN NotFoundException("User", id)
  ELSE Ok(us[FindIndex(us, id)])

\* findByEmail: is there a stored user with exactly this email
FindByEmail(us, email) == \E i \in 1..Len(us) : us[i].email = email

\* the record UsersService.create builds
NewUser(id, dto, createdAt, updatedAt) ==
  [id |-> id, email |-> dto.email,
   firstName |-> dto.firstName, lastName |-> dto.lastName,
   fullName |-> dto.firstName \o <<" ">> \o dto.lastName,
   role |-> dto.role, status |-> "active",
   phone |-> IF Has(dto, "phone") THEN dto.phone ELSE Undefined,
   bio |-> IF Has(dto, "bio") THEN dto.bio ELSE Undefined,
   createdAt |-> createdAt, updatedAt |-> updatedAt]

\* the fullName expression of UsersService.update
UpdatedFullName(old, dto) ==
  IF TruthyText(dto, "firstName") \/ TruthyText(dto, "lastName")
  THEN (IF TruthyText(dto, "firstName") THEN dto.firstName ELSE old.firstName)
       \o <<" ">> \o
       (IF TruthyText(dto, "lastName") THEN dto.lastName ELSE old.lastName)
  ELSE old.fullName

\* the record UsersService.update builds
UpdatedUser(old, dto, t) ==
  Spread(Spread(old, dto),
         [fullName |-> UpdatedFullName(old, dto), updatedAt |-> t])


\* ------------------------------------------------------------------------
\* CoursesService
\* ------------------------------------------------------------------------
CourseMatchesSearch(course, search) ==
  LET searchLower == ToLowerCase(search)
  IN \/ Includes(ToLowerCase(course.title), searchLower)
     \/ Includes(ToLowerCase(course.description), searchLower)

\* variant of CoursesFiltered: the status filter is not applied
CoursesFiltered_IgnoresStatus(cs, query) ==
  LET BySearch(s) == [i \in 1..Len(s) |-> CourseMatchesSearch(s[i], query.search)]
      ByLevel(s) == [i \in 1..Len(s) |-> s[i].level = query.level]
      ByInstructor(s) == [i \in 1..Len(s) |-> s[i].instructor.id = query.instructorId]
      ByMinPrice(s) == [i \in 1..Len(s) |-> s[i].price >= query.minPrice]
      ByMaxPrice(s) == [i \in 1..Len(s) |-> s[i].price <= query.maxPrice]
      f1 == IF TruthyText(query, "search") THEN Filter(cs, BySearch(cs)) ELSE cs
      f2 == IF TruthyEnum(query, "level") THEN Filter(f1, ByLevel(f1)) ELSE f1
      f4 == IF TruthyNum(query, "instructorId") THEN Filter(f2, ByInstructor(f2)) ELSE f2
      f5 == IF Has(query, "minPrice") THEN Filter(f4, ByMinPrice(f4)) ELSE f4
      f6 == IF Has(query, "maxPrice") THEN Filter(f5, ByMaxPrice(f5)) ELSE f5
  IN f6

\* the filters of CoursesService.findAll, applied in the order of the code
CoursesFiltered(cs, query) ==
  LET BySearch(s) == [i \in 1..Len(s) |-> CourseMatchesSearch(s[i], query.search)]
      ByLevel(s) == [i \in 1..Len(s) |-> s[i].level = query.level]
      ByStatus(s) == [i \in 1..Len(s) |-> s[i].status = query.status]
      ByInstructor(s) == [i \in 1..Len(s) |-> s[i].instructor.id = query.instructorId]
      ByMinPrice(s) == [i \in 1..Len(s) |-> s[i].price >= query.minPrice]
      ByMaxPrice(s) == [i \in 1..Len(s) |-> s[i].price <= query.maxPrice]
      f1 == IF TruthyText(query, "search") THEN Filter(cs, BySearch(cs)) ELSE cs
      f2 == IF TruthyEnum(query, "level") THEN Filter(f1, ByLevel(f1)) ELSE f1
      f3 == IF TruthyEnum(query, "status") THEN Filter(f2, ByStatus(f2)) ELSE f2
      f4 == IF TruthyNum(query, "instructorId") THEN Filter(f3, ByInstructor(f3)) ELSE f3
      f5 == IF Has(query, "minPrice") THEN Filter(f4, ByMinPrice(f4)) ELSE f4
      f6 == IF Has(query, "maxPrice") THEN Filter(f5, ByMaxPrice(f5)) ELSE f5
  IN f6

CoursesFindAllResult(cs, query) == Paginate(CoursesFiltered(cs, query), query)

CoursesFindOneResult(cs, id) ==
  IF FindIndex(cs, id) = 0 THEN NotFoundException("Course", id)
  ELSE Ok(cs[FindIndex(cs, id)])

\* variant of NewCourse: a status in the draft is taken over
NewCourse_TakesStatus(id, dto, createdAt, updatedAt) ==
  [id |-> id, title |-> dto.title, description |-> dto.description,
   level |-> dto.level, duration |-> dto.duration, price |-> dto.price,
   status |-> IF TruthyEnum(dto, "status") THEN dto.status ELSE "draft",
   instructor |-> [id |-> IF TruthyNum(dto, "instructorId")
                          THEN dto.instructorId ELSE 2,
                   name |-> JaneSmith, email |-> InstructorEmail],
   tags |-> IF Has(dto, "tags") THEN dto.tags ELSE <<>>,
   rating |-> 0, enrolledStudents |-> 0,
   createdAt |-> createdAt, updatedAt |-> updatedAt]

\* the record CoursesService.create builds
NewCourse(id, dto, createdAt, updatedAt) ==
  [id |-> id, title |-> dto.title, description |-> dto.description,
   level |-> dto.level, duration |-> dto.duration, price |-> dto.price,
   status |-> "draft",
   instructor |-> [id |-> IF TruthyNum(dto, "instructorId")
                          THEN dto.instructorId ELSE 2,
                   name |-> JaneSmith, email |-> InstructorEmail],
   tags |-> IF Has(dto, "tags") THEN dto.tags ELSE <<>>,
   rating |-> 0, enrolledStudents |-> 0,
   createdAt |-> createdAt, updatedAt |-> updatedAt]

\* variant of UpdatedCourse: the status of the patch is left out
UpdatedCourse_KeepsStatus(old, dto, t) ==
  Spread(Spread(old, dto), [status |-> old.status, updatedAt |-> t])

\* variant of UpdatedCourse: the stored course is rebuilt from the patch
UpdatedCourse_FromPatch(old, dto, t) ==
  Spread(Spread([id |-> old.id, createdAt |-> old.createdAt], dto),
         [updatedAt |-> t])

\* the record CoursesService.update builds
UpdatedCourse(old, dto, t) == Spread(Spread(old, dto), [updatedAt |-> t])

\* ------------------------------------------------------------------------
\* AuthService
\* ------------------------------------------------------------------------
DemoUsers == <<
  [email |-> DemoUserEmail, password |-> "password123", id |-> 1,
   name |-> JohnDoe, role |-> "student"],
  [email |-> AdminEmail, password |-> "admin123", id |-> 2,
   name |-> AdminUser, role |-> "admin"],
  [email |-> InstructorEmail, password |-> "instructor123", id |-> 3,
   name |-> JaneSmith, role |-> "instructor"] >>

\* signOptions.expiresIn: JWT_EXPIRES_IN || '7d', in days
JwtExpiresIn == IF jwtExpiresInEnv # <<>> THEN jwtExpiresInEnv[1] ELSE 7

\* the key tokens are signed with: configService.get('JWT_SECRET')
JwtSecret == "JWT_SECRET"

\* jwtService.sign(payload): the claims, the issue and expiry dates, and the
\* signature, which names the key that made it
JwtSign(payload, t) ==
  Spread(payload, [iat |-> t, exp |-> t + JwtExpiresIn, sig |-> JwtSecret])

\* variant of FindDemoUser: the password is not compared
FindDemoUser_EmailOnly(dto) ==
  LET Match(i) == DemoUsers[i].email = dto.email
  IN IF \E i \in 1..Len(DemoUsers) : Match(i)
     THEN CHOOSE i \in 1..Len(DemoUsers) :
            Match(i) /\ \A j \in 1..(i - 1) : ~Match(j)
     ELSE 0

\* demoUsers.find(u => u.email === dto.email && u.password === dto.password),
\* as an index; 0 when no record matches
FindDemoUser(dto) ==
  LET Match(i) == DemoUsers[i].email = dto.email
                  /\ DemoUsers[i].password = dto.password
  IN IF \E i \in 1..Len(DemoUsers) : Match(i)
     THEN CHOOSE i \in 1..Len(DemoUsers) :
            Match(i) /\ \A j \in 1..(i - 1) : ~Match(j)
     ELSE 0

ExpiresInSeconds == 604800

\* variant of LoginResult: the matched record itself is the user snapshot
LoginResult_EchoesRecord(dto, t) ==
  IF FindDemoUser(dto) = 0 THEN UnauthorizedException
  ELSE LET user == DemoUsers[FindDemoUser(dto)]
           payload == [email |-> user.email, sub |-> user.id, role |-> user.role]
       IN Ok([access_token |-> JwtSign(payload, t),
              token_type |-> "Bearer",
              expires_in |-> ExpiresInSeconds,
              user |-> user])

\* variant of LoginResult: an unknown email gets a message of its own
LoginResult_NamesField(dto, t) ==
  IF \A i \in 1..Len(DemoUsers) : DemoUsers[i].email # dto.email
  THEN [UnauthorizedException EXCEPT !.message = <<"Unknown email">>]
  ELSE IF FindDemoUser(dto) = 0 THEN UnauthorizedException
  ELSE LET user == DemoUsers[FindDemoUser(dto)]
           payload == [email |-> user.email, sub |-> user.id, role |-> user.role]
       IN Ok([access_token |-> JwtSign(payload, t),
              token_type |-> "Bearer",
              expires_in |-> ExpiresInSeconds,
              user |-> [id |-> user.id, email |-> user.email,
                        name |-> user.name, role |-> user.role]])

\* AuthService.login
LoginResult(dto, t) ==
  IF FindDemoUser(dto) = 0 THEN UnauthorizedException
  ELSE LET user == DemoUsers[FindDemoUser(dto)]
           payload == [email |-> user.email, sub |-> user.id, role |-> user.role]
       IN Ok([access_token |-> JwtSign(payload, t),
              token_type |-> "Bearer",
              expires_in |-> ExpiresInSeconds,
              user |-> [id |-> user.id, email |-> user.email,
                        name |-> user.name, role |-> user.role]])

\* Date.prototype.toISOString: text made from the date
ToISOString(t) == <<"ISO", t>>

\* AuthService.getProfile
GetProfileResult(t) ==
  Ok([id |-> 1, email |-> DemoUserEmail, name |-> JohnDoe, role |-> "student",
      createdAt |-> ToISOString(t)])

\* AuthController.logout
LogoutResult == Ok([message |-> "Logged out successfully"])


\* ------------------------------------------------------------------------
\* Inputs
\* ------------------------------------------------------------------------
NewEmail == <<"n","e","w","@","x",".","i","o">>

\* a token signed with another key, and one of this server that has expired
ForgedToken ==
  [email |-> AdminEmail, sub |-> 2, role |-> "admin",
   iat |-> StartTime, exp |-> StartTime + JwtExpiresIn, sig |-> "other key"]
ExpiredToken ==
  JwtSign([email |-> DemoUserEmail, sub |-> 1, role |-> "student"],
          StartTime - JwtExpiresIn - 1)

\* the Authorization header of a request: absent, or one bearer token
BearerInputs == {<<>>, <<ForgedToken>>, <<ExpiredToken>>} \cup {held}

LoginInputs ==
  [email : {DemoUserEmail, AdminEmail, InstructorEmail, NewEmail},
   password : {"password123", "admin123", "instructor123", "wrong12"}]

CreateUserInputs ==
  { [email |-> StudentEmail, password |-> "password1",
     firstName |-> <<"A","n","n">>, lastName |-> <<"L","e","e">>,
     role |-> "student"],
    [email |-> NewEmail, password |-> "password2",
     firstName |-> <<"J","a","n">>, lastName |-> <<"O","r","r">>,
     role |-> "instructor", phone |-> "+15550100"] }

CreateCourseInputs ==
  { [title |-> <<"X">>, description |-> <<"G","o"," ","1","0","1">>,
     level |-> "beginner", duration |-> 5, price |-> 1000],
    [title |-> <<"R","u","s","t">>, description |-> <<"A","d","v">>,
     level |-> "advanced", duration |-> 8, price |-> 0,
     instructorId |-> 3, tags |-> <<"rust">>] }

\* ------------------------------------------------------------------------
\* Initial state: the stores as constructed, no call made yet
\* ------------------------------------------------------------------------
\* the stores, the clock and the histories when the process has started
InitStores ==
  /\ users = SeedUsers
  /\ usersNextId = UsersFirstId
  /\ courses = SeedCourses
  /\ coursesNextId = CoursesFirstId
  /\ pending = <<>>
  /\ now = StartTime
  /\ held = <<>>
  /\ req = [op |-> "none"]
  /\ resp = [kind |-> "none"]
  /\ removedUserIds = {}
  /\ removedCourseIds = {}
  /\ calls = 0

\* JWT_EXPIRES_IN is not set
Init == InitStores /\ jwtExpiresInEnv = <<>>

\* values of JWT_EXPIRES_IN tried: not set, one day, seven days, thirty days
JwtExpiresInInputs == {<<>>, <<1>>, <<7>>, <<30>>}

\* the process starts with any of them
InitConfigured == InitStores /\ jwtExpiresInEnv \in JwtExpiresInInputs

\* one more call is made
Call ==
  /\ calls < MaxCalls
  /\ calls' = calls + 1
  /\ UNCHANGED jwtExpiresInEnv

\* the clock advances
Tick ==
  /\ now < MaxTime
  /\ now' = now + 1
  /\ UNCHANGED <<calls, jwtExpiresInEnv>>
  /\ UNCHANGED <<users, usersNextId, courses, coursesNextId, pending, held,
                 req, resp, removedUserIds, removedCourseIds>>

\* the values of two successive new Date(): the second is not earlier
SecondRead(t) == {t2 \in {t, t + 1} : t2 <= MaxTime}

\* variant of UsersFindAll: the stored array is reordered in place for the
\* listing
UsersFindAll_ReversesStore(bearer, query) ==
  /\ Call
  /\ req' = [op |-> "users.findAll", bearer |-> bearer, query |-> query]
  /\ users' = [i \in 1..Len(users) |-> users[Len(users) + 1 - i]]
  /\ resp' = Ok(UsersFindAllResult(users', query))
  /\ UNCHANGED <<usersNextId, courses, coursesNextId, pending, now,
                 held, removedUserIds, removedCourseIds>>

\* ------------------------------------------------------------------------
\* UsersController -> UsersService (no guard stands between them)
\* ------------------------------------------------------------------------
UsersFindAll(bearer, query) ==
  /\ Call
  /\ req' = [op |-> "users.findAll", bearer |-> bearer, query |-> query]
  /\ resp' = Ok(UsersFindAllResult(users, query))
  /\ UNCHANGED <<users, usersNextId, courses, coursesNextId, pending, now,
                 held, removedUserIds, removedCourseIds>>

UsersFindOne(bearer, id) ==
  /\ Call
  /\ req' = [op |-> "users.findOne", bearer |-> bearer, id |-> id]
  /\ resp' = UsersFindOneResult(users, id)
  /\ UNCHANGED <<users, usersNextId, courses, coursesNextId, pending, now,
                 held, removedUserIds, removedCourseIds>>

\* create up to its await: findByEmail has searched the list, the rest of
\* create is queued behind the continuations already waiting
UsersCreateCall(bearer, dto) ==
  /\ Call
  /\ Len(pending) < MaxPending
  /\ usersNextId + Len(pending) <= MaxId
  /\ pending' = Append(pending, [bearer |-> bearer, dto |-> dto,
                                 existingUser |-> FindByEmail(users, dto.email)])
  /\ UNCHANGED <<users, usersNextId, courses, coursesNextId, now, held,
                 req, resp, removedUserIds, removedCourseIds>>

\* variant of UsersCreateResume: the id is taken from the length of the list
UsersCreateResume_IdFromLength ==
  /\ pending # <<>>
  /\ UNCHANGED <<calls, jwtExpiresInEnv>>
  /\ LET call == Head(pending)
     IN /\ req' = [op |-> "users.create", bearer |-> call.bearer,
                   dto |-> call.dto]
        /\ pending' = Tail(pending)
        /\ IF call.existingUser
           THEN /\ resp' = ConflictException
                /\ UNCHANGED <<users, usersNextId, now>>
           ELSE \E updatedAt \in SecondRead(now) :
                  LET newUser == NewUser(Len(users) + 1, call.dto, now, updatedAt)
                  IN /\ usersNextId' = usersNextId + 1
                     /\ users' = Append(users, newUser)
                     /\ now' = updatedAt
                     /\ resp' = Ok(newUser)
  /\ UNCHANGED <<courses, coursesNextId, held, removedUserIds,
                 removedCourseIds>>

\* variant of UsersCreateResume: the id is taken from the counter before
\* the email test, so a rejected call uses one up
UsersCreateResume_ConsumesId ==
  /\ pending # <<>>
  /\ UNCHANGED <<calls, jwtExpiresInEnv>>
  /\ LET call == Head(pending)
     IN /\ req' = [op |-> "users.create", bearer |-> call.bearer,
                   dto |-> call.dto]
        /\ pending' = Tail(pending)
        /\ usersNextId' = usersNextId + 1
        /\ IF call.existingUser
           THEN /\ resp' = ConflictException
                /\ UNCHANGED <<users, now>>
           ELSE \E updatedAt \in SecondRead(now) :
                  LET newUser == NewUser(usersNextId, call.dto, now, updatedAt)
                  IN /\ users' = Append(users, newUser)
                     /\ now' = updatedAt
                     /\ resp' = Ok(newUser)
  /\ UNCHANGED <<courses, coursesNextId, held, removedUserIds,
                 removedCourseIds>>

\* create after its await: the test of existingUser, then the insert
UsersCreateResume ==
  /\ pending # <<>>
  /\ UNCHANGED <<calls, jwtExpiresInEnv>>
  /\ LET call == Head(pending)
     IN /\ req' = [op |-> "users.create", bearer |-> call.bearer,
                   dto |-> call.dto]
        /\ pending' = Tail(pending)
        /\ IF call.existingUser
           THEN /\ resp' = ConflictException
                /\ UNCHANGED <<users, usersNextId, now>>
           ELSE \E updatedAt \in SecondRead(now) :
                  LET newUser == NewUser(usersNextId, call.dto, now, updatedAt)
                  IN /\ usersNextId' = usersNextId + 1
                     /\ users' = Append(users, newUser)
                     /\ now' = updatedAt
                     /\ resp' = Ok(newUser)
  /\ UNCHANGED <<courses, coursesNextId, held, removedUserIds,
                 removedCourseIds>>

UsersUpdate(bearer, id, dto) ==
  /\ Call
  /\ req' = [op |-> "users.update", bearer |-> bearer, id |-> id, dto |-> dto]
  /\ LET userIndex == FindIndex(users, id)
     IN IF userIndex = 0
        THEN /\ resp' = NotFoundException("User", id)
             /\ UNCHANGED users
        ELSE LET updatedUser == UpdatedUser(users[userIndex], dto, now)
             IN /\ users' = [users EXCEPT ![userIndex] = updatedUser]
                /\ resp' = Ok(updatedUser)
  /\ UNCHANGED <<usersNextId, courses, coursesNextId, pending, now, held,
                 removedUserIds, removedCourseIds>>

\* variant of UsersRemove: removing the newest user hands its id back
UsersRemove_ReusesId(bearer, id) ==
  /\ Call
  /\ req' = [op |-> "users.remove", bearer |-> bearer, id |-> id]
  /\ LET userIndex == FindIndex(users, id)
     IN IF userIndex = 0
        THEN /\ resp' = NotFoundException("User", id)
             /\ UNCHANGED <<users, usersNextId, removedUserIds>>
        ELSE /\ users' = Splice(users, userIndex)
             /\ usersNextId' = IF id = usersNextId - 1 THEN id ELSE usersNextId
             /\ removedUserIds' = removedUserIds \cup {id}
             /\ resp' = Ok(Undefined)
  /\ UNCHANGED <<courses, coursesNextId, pending, now, held, removedCourseIds>>

UsersRemove(bearer, id) ==
  /\ Call
  /\ req' = [op |-> "users.remove", bearer |-> bearer, id |-> id]
  /\ LET userIndex == FindIndex(users, id)
     IN IF userIndex = 0
        THEN /\ resp' = NotFoundException("User", id)
             /\ UNCHANGED <<users, removedUserIds>>
        ELSE /\ users' = Splice(users, userIndex)
             /\ removedUserIds' = removedUserIds \cup {id}
             /\ resp' = Ok(Undefined)
  /\ UNCHANGED <<usersNextId, courses, coursesNextId, pending, now, held,
                 removedCourseIds>>


\* ------------------------------------------------------------------------
\* CoursesController -> CoursesService (no guard stands between them)
\* ------------------------------------------------------------------------
CoursesFindAll(bearer, query) ==
  /\ Call
  /\ req' = [op |-> "courses.findAll", bearer |-> bearer, query |-> query]
  /\ resp' = Ok(CoursesFindAllResult(courses, query))
  /\ UNCHANGED <<users, usersNextId, courses, coursesNextId, pending, now,
                 held, removedUserIds, removedCourseIds>>

CoursesFindOne(bearer, id) ==
  /\ Call
  /\ req' = [op |-> "courses.findOne", bearer |-> bearer, id |-> id]
  /\ resp' = CoursesFindOneResult(courses, id)
  /\ UNCHANGED <<users, usersNextId, courses, coursesNextId, pending, now,
                 held, removedUserIds, removedCourseIds>>

\* variant of CoursesCreate: the id is taken from the length of the store
CoursesCreate_IdFromLength(bearer, dto) ==
  /\ Call
  /\ coursesNextId <= MaxId
  /\ req' = [op |-> "courses.create", bearer |-> bearer, dto |-> dto]
  /\ \E updatedAt \in SecondRead(now) :
       LET newCourse == NewCourse(Len(courses) + 1, dto, now, updatedAt)
       IN /\ coursesNextId' = coursesNextId + 1
          /\ courses' = Append(courses, newCourse)
          /\ now' = updatedAt
          /\ resp' = Ok(newCourse)
  /\ UNCHANGED <<users, usersNextId, pending, held, removedUserIds,
                 removedCourseIds>>

\* create has no await: it runs to its return in one step
CoursesCreate(bearer, dto) ==
  /\ Call
  /\ coursesNextId <= MaxId
  /\ req' = [op |-> "courses.create", bearer |-> bearer, dto |-> dto]
  /\ \E updatedAt \in SecondRead(now) :
       LET newCourse == NewCourse(coursesNextId, dto, now, updatedAt)
       IN /\ coursesNextId' = coursesNextId + 1
          /\ courses' = Append(courses, newCourse)
          /\ now' = updatedAt
          /\ resp' = Ok(newCourse)
  /\ UNCHANGED <<users, usersNextId, pending, held, removedUserIds,
                 removedCourseIds>>

CoursesUpdate(bearer, id, dto) ==
  /\ Call
  /\ req' = [op |-> "courses.update", bearer |-> bearer, id |-> id, dto |-> dto]
  /\ LET courseIndex == FindIndex(courses, id)
     IN IF courseIndex = 0
        THEN /\ resp' = NotFoundException("Course", id)
             /\ UNCHANGED courses
        ELSE LET updatedCourse == UpdatedCourse(courses[courseIndex], dto, now)
             IN /\ courses' = [courses EXCEPT ![courseIndex] = updatedCourse]
                /\ resp' = Ok(updatedCourse)
  /\ UNCHANGED <<users, usersNextId, coursesNextId, pending, now, held,
                 removedUserIds, removedCourseIds>>

\* variant of CoursesRemove: the index is not tested, and splice(-1, 1)
\* takes the last course
CoursesRemove_SplicesAnyway(bearer, id) ==
  /\ Call
  /\ req' = [op |-> "courses.remove", bearer |-> bearer, id |-> id]
  /\ LET courseIndex == FindIndex(courses, id)
     IN IF courseIndex = 0
        THEN /\ resp' = NotFoundException("Course", id)
             /\ courses' = SubSeq(courses, 1, Len(courses) - 1)
             /\ UNCHANGED removedCourseIds
        ELSE /\ courses' = Splice(courses, courseIndex)
             /\ removedCourseIds' = removedCourseIds \cup {id}
             /\ resp' = Ok(Undefined)
  /\ UNCHANGED <<users, usersNextId, coursesNextId, pending, now, held,
                 removedUserIds>>

CoursesRemove(bearer, id) ==
  /\ Call
  /\ req' = [op |-> "courses.remove", bearer |-> bearer, id |-> id]
  /\ LET courseIndex == FindIndex(courses, id)
     IN IF courseIndex = 0
        THEN /\ resp' = NotFoundException("Course", id)
             /\ UNCHANGED <<courses, removedCourseIds>>
        ELSE /\ courses' = Splice(courses, courseIndex)
             /\ removedCourseIds' = removedCourseIds \cup {id}
             /\ resp' = Ok(Undefined)
  /\ UNCHANGED <<users, usersNextId, coursesNextId, pending, now, held,
                 removedUserIds>>

\* variant of Login: an account whose email has no stored user is turned away
Login_ChecksStore(dto) ==
  /\ Call
  /\ req' = [op |-> "auth.login", bearer |-> <<>>, dto |-> dto]
  /\ resp' = IF FindByEmail(users, dto.email) THEN LoginResult(dto, now)
             ELSE UnauthorizedException
  /\ held' = IF resp'.kind = "ok" THEN <<resp'.body.access_token>> ELSE held
  /\ UNCHANGED <<users, usersNextId, courses, coursesNextId, pending, now,
                 removedUserIds, removedCourseIds>>

\* ------------------------------------------------------------------------
\* AuthController -> AuthService
\* ------------------------------------------------------------------------
\* POST /auth/login; the client keeps the token of a successful login
Login(dto) ==
  /\ Call
  /\ req' = [op |-> "auth.login", bearer |-> <<>>, dto |-> dto]
  /\ resp' = LoginResult(dto, now)
  /\ held' = IF resp'.kind = "ok" THEN <<resp'.body.access_token>> ELSE held
  /\ UNCHANGED <<users, usersNextId, courses, coursesNextId, pending, now,
                 removedUserIds, removedCourseIds>>

\* GET /auth/profile
GetProfile(bearer) ==
  /\ Call
  /\ req' = [op |-> "auth.profile", bearer |-> bearer]
  /\ resp' = GetProfileResult(now)
  /\ UNCHANGED <<users, usersNextId, courses, coursesNextId, pending, now,
                 held, removedUserIds, removedCourseIds>>

\* variant of Logout: the newest user is dropped from the store
Logout_ResetsUsers(bearer) ==
  /\ Call
  /\ req' = [op |-> "auth.logout", bearer |-> bearer]
  /\ resp' = LogoutResult
  /\ users' = SubSeq(users, 1, Len(users) - 1)
  /\ UNCHANGED <<usersNextId, courses, coursesNextId, pending, now,
                 held, removedUserIds, removedCourseIds>>

\* POST /auth/logout
Logout(bearer) ==
  /\ Call
  /\ req' = [op |-> "auth.logout", bearer |-> bearer]
  /\ resp' = LogoutResult
  /\ UNCHANGED <<users, usersNextId, courses, coursesNextId, pending, now,
                 held, removedUserIds, removedCourseIds>>

\* ------------------------------------------------------------------------
\* The global ValidationPipe (whitelist, forbidNonWhitelisted, transform)
\* and the controller methods behind it
\* ------------------------------------------------------------------------
\* the 400 answer of the pipe
BadRequestException ==
  [kind |-> "error", error |-> "BadRequestException", statusCode |-> 400,
   message |-> <<"Bad Request">>]

\* the decorated properties of the DTO classes
QueryUserDtoFields == {"search", "role", "status", "page", "limit"}
QueryCourseDtoFields ==
  {"search", "level", "status", "instructorId", "minPrice", "maxPrice",
   "page", "limit"}

\* variant of Whitelisted: properties without a decorator are let through
Whitelisted_AllowsAll(input, fields) == TRUE

\* forbidNonWhitelisted: every property of the input is a decorated one
Whitelisted(input, fields) == DOMAIN input \subseteq fields

\* @IsInt()
IsInt(v) == v \in Int

\* @IsOptional() @Type(() => Number) @IsInt() on page and on limit
PagingValid(query) ==
  \A k \in {"page", "limit"} : Has(query, k) => IsInt(query[k])

\* a request the pipe turned down: the handler does not run
Rejected(r) ==
  /\ Call
  /\ req' = r
  /\ resp' = BadRequestException
  /\ UNCHANGED <<users, usersNextId, courses, coursesNextId, pending, now,
                 held, removedUserIds, removedCourseIds>>

\* GET /users
UsersFindAllRequest(bearer, query) ==
  IF Whitelisted(query, QueryUserDtoFields) /\ PagingValid(query)
  THEN UsersFindAll(bearer, query)
  ELSE Rejected([op |-> "users.findAll", bearer |-> bearer, query |-> query])

\* GET /courses
CoursesFindAllRequest(bearer, query) ==
  IF Whitelisted(query, QueryCourseDtoFields) /\ PagingValid(query)
  THEN CoursesFindAll(bearer, query)
  ELSE Rejected([op |-> "courses.findAll", bearer |-> bearer, query |-> query])

UpdateUserDtoFields == {"firstName", "lastName", "phone", "bio", "status"}
UpdateCourseDtoFields ==
  {"title", "description", "level", "duration", "price", "status", "tags"}

\* PUT /users/:id
UsersUpdateRequest(bearer, id, body) ==
  IF Whitelisted(body, UpdateUserDtoFields)
  THEN UsersUpdate(bearer, id, body)
  ELSE Rejected([op |-> "users.update", bearer |-> bearer, id |-> id,
                 dto |-> body])

\* PUT /courses/:id
CoursesUpdateRequest(bearer, id, body) ==
  IF Whitelisted(body, UpdateCourseDtoFields)
  THEN CoursesUpdate(bearer, id, body)
  ELSE Rejected([op |-> "courses.update", bearer |-> bearer, id |-> id,
                 dto |-> body])

\* ------------------------------------------------------------------------
\* Specifications
\* ------------------------------------------------------------------------
\* the authentication routes, with every kind of Authorization header
NextAuth ==
  \/ Tick
  \/ \E dto \in LoginInputs : Login(dto)
  \/ \E b \in BearerInputs : GetProfile(b)
  \/ \E b \in BearerInputs : Logout(b)

SpecAuth == Init /\ [][NextAuth]_vars

\* ids used by the calls on the stores: a seeded entity, the first created
\* one, and an id that is never allocated
StoreIds == {3, UsersFirstId, MaxId + 1}

UserPatch == [firstName |-> <<"Z","e","d">>, status |-> "suspended"]
CoursePatch == [status |-> "published"]

\* create, read, update and remove on both stores; create of a user may be
\* suspended at its await while other calls run
NextStores ==
  \/ Tick
  \/ \E dto \in CreateUserInputs : UsersCreateCall(<<>>, dto)
  \/ UsersCreateResume
  \/ \E id \in StoreIds : UsersFindOne(<<>>, id)
  \/ \E id \in StoreIds : UsersUpdate(<<>>, id, UserPatch)
  \/ \E id \in StoreIds : UsersRemove(<<>>, id)
  \/ \E dto \in CreateCourseInputs : CoursesCreate(<<>>, dto)
  \/ \E id \in StoreIds : CoursesFindOne(<<>>, id)
  \/ \E id \in StoreIds : CoursesUpdate(<<>>, id, CoursePatch)
  \/ \E id \in StoreIds : CoursesRemove(<<>>, id)

SpecStores == Init /\ [][NextStores]_vars

GateLoginInputs ==
  { [email |-> DemoUserEmail, password |-> "password123"],
    [email |-> AdminEmail, password |-> "wrong12"] }

\* routes documented as protected, a read and a mutation of each store, with
\* every kind of Authorization header
NextGate ==
  \/ Tick
  \/ \E dto \in GateLoginInputs : Login(dto)
  \/ \E b \in BearerInputs : GetProfile(b)
  \/ \E b \in BearerInputs : Logout(b)
  \/ \E b \in BearerInputs : UsersFindOne(b, 3)
  \/ \E b \in BearerInputs : UsersRemove(b, 3)
  \/ \E b \in BearerInputs : CoursesFindOne(b, 3)
  \/ \E b \in BearerInputs : CoursesRemove(b, 3)

SpecGate == Init /\ [][NextGate]_vars

\* inputs of the listing specification
ListingIds == {3, UsersFirstId}
ListingUserQueries ==
  { [page |-> 2, limit |-> 1],
    [search |-> <<"J","A">>, status |-> "active", page |-> 1, limit |-> 2] }
ListingCourseQueries ==
  { [status |-> "published", page |-> 1, limit |-> 10],
    [search |-> <<"R","E","A","C","T">>, minPrice |-> 0, page |-> 2, limit |-> 1] }
ListingUserDto ==
  [email |-> NewEmail, password |-> "password2",
   firstName |-> <<"J","a","n">>, lastName |-> <<"O","r","r">>,
   role |-> "instructor", phone |-> "+15550100"]
ListingCourseDto ==
  [title |-> <<"R","u","s","t">>, description |-> <<"A","d","v">>,
   level |-> "advanced", duration |-> 8, price |-> 0,
   instructorId |-> 3, tags |-> <<"rust">>]

\* listings of both stores while their contents change
NextListing ==
  \/ \E q \in ListingUserQueries : UsersFindAll(<<>>, q)
  \/ UsersCreateCall(<<>>, ListingUserDto)
  \/ UsersCreateResume
  \/ \E id \in ListingIds : UsersUpdate(<<>>, id, UserPatch)
  \/ \E id \in ListingIds : UsersRemove(<<>>, id)
  \/ \E q \in ListingCourseQueries : CoursesFindAll(<<>>, q)
  \/ CoursesCreate(<<>>, ListingCourseDto)
  \/ \E id \in ListingIds : CoursesUpdate(<<>>, id, CoursePatch)
  \/ \E id \in ListingIds : CoursesRemove(<<>>, id)

SpecListing == Init /\ [][NextListing]_vars

\* page and limit values at and below zero, next to positive ones, and a
\* query with a property no DTO declares
PagingUserQueries ==
  { [page |-> 1, limit |-> 2], [page |-> 0, limit |-> 2],
    [page |-> -1, limit |-> 2], [page |-> 1, limit |-> 0],
    [page |-> 2, limit |-> -1], [sort |-> "id"] }
PagingCourseQueries ==
  { [status |-> "published", page |-> -1, limit |-> 1],
    [status |-> "published", page |-> 0, limit |-> 0],
    [level |-> "beginner", limit |-> -2] }

\* listings with page and limit of either sign, while the stores change
NextPaging ==
  \/ \E q \in PagingUserQueries : UsersFindAllRequest(<<>>, q)
  \/ \E q \in PagingCourseQueries : CoursesFindAllRequest(<<>>, q)
  \/ \E id \in ListingIds : UsersRemove(<<>>, id)
  \/ CoursesCreate(<<>>, ListingCourseDto)
  \/ \E id \in ListingIds : CoursesRemove(<<>>, id)

SpecPaging == Init /\ [][NextPaging]_vars

\* request bodies of the update specification: one optional field, a name
\* part and the status, an empty name part, and a body that names id and
\* createdAt
PatchUserIds == {3, UsersFirstId}
PatchUserBodies ==
  { [phone |-> "+15550111"],
    UserPatch,
    [lastName |-> <<>>],
    [id |-> 1, createdAt |-> 0, bio |-> "x"] }
PatchCourseIds == {3}
PatchCourseBodies ==
  { CoursePatch,
    [title |-> <<"G","o">>, duration |-> 9],
    [id |-> 1, createdAt |-> 0, status |-> "archived"] }

\* updates through the controllers, while time passes and users are created
NextPatch ==
  \/ Tick
  \/ UsersCreateCall(<<>>, ListingUserDto)
  \/ UsersCreateResume
  \/ \E id \in PatchUserIds, body \in PatchUserBodies :
       UsersUpdateRequest(<<>>, id, body)
  \/ \E id \in PatchCourseIds, body \in PatchCourseBodies :
       CoursesUpdateRequest(<<>>, id, body)

SpecPatch == Init /\ [][NextPatch]_vars

\* inputs of the course life-cycle specification: the draft of the
\* documented scenario, the same draft carrying a status, a rating and an
\* enrolment count, and listings of the published courses
DraftCourseInputs ==
  { [title |-> <<"X">>, description |-> <<"G","o"," ","1","0","1">>,
     level |-> "beginner", duration |-> 5, price |-> 1000],
    [title |-> <<"X">>, description |-> <<"G","o"," ","1","0","1">>,
     level |-> "beginner", duration |-> 5, price |-> 1000,
     status |-> "published", rating |-> 45, enrolledStudents |-> 7] }
DraftCourseIds == {3, CoursesFirstId}
PublishedQueries ==
  { [status |-> "published"],
    [status |-> "published", limit |-> 2],
    [status |-> "published", page |-> 2, limit |-> 2] }

\* courses are created, published, removed and listed; users are created
NextDrafts ==
  \/ \E dto \in DraftCourseInputs : CoursesCreate(<<>>, dto)
  \/ \E id \in DraftCourseIds : CoursesUpdate(<<>>, id, CoursePatch)
  \/ \E id \in DraftCourseIds : CoursesRemove(<<>>, id)
  \/ \E q \in PublishedQueries : CoursesFindAll(<<>>, q)
  \/ \E dto \in CreateUserInputs : UsersCreateCall(<<>>, dto)
  \/ UsersCreateResume

SpecDrafts == Init /\ [][NextDrafts]_vars

\* inputs of the read specification
ReadIds == {3, UsersFirstId}
ReadUserQueries == { [x \in {} |-> 0], [role |-> "student", limit |-> 1] }
ReadCourseQueries == { [x \in {} |-> 0], [status |-> "published", page |-> 2, limit |-> 2] }

\* reads of both stores, with mutations between them
NextReads ==
  \/ \E id \in ReadIds : UsersFindOne(<<>>, id)
  \/ \E q \in ReadUserQueries : UsersFindAll(<<>>, q)
  \/ \E id \in ReadIds : CoursesFindOne(<<>>, id)
  \/ \E q \in ReadCourseQueries : CoursesFindAll(<<>>, q)
  \/ UsersCreateCall(<<>>, ListingUserDto)
  \/ UsersCreateResume
  \/ UsersUpdate(<<>>, 3, UserPatch)
  \/ CoursesRemove(<<>>, 3)

SpecReads == Init /\ [][NextReads]_vars

\* inputs of the accounts specification: the created user's email with the
\* password given at creation, a seeded account whose user record can be
\* removed, and a wrong password
AccountLoginInputs ==
  { [email |-> NewEmail, password |-> "password2"],
    [email |-> InstructorEmail, password |-> "instructor123"],
    [email |-> AdminEmail, password |-> "wrong12"] }
AccountIds == {1, 2}

\* logins while users are created, updated and removed
NextAccounts ==
  \/ \E dto \in AccountLoginInputs : Login(dto)
  \/ UsersCreateCall(<<>>, ListingUserDto)
  \/ UsersCreateResume
  \/ \E id \in AccountIds : UsersUpdate(<<>>, id, UserPatch)
  \/ \E id \in AccountIds : UsersRemove(<<>>, id)

SpecAccounts == Init /\ [][NextAccounts]_vars

\* the authentication routes of a process started with any token lifetime
SpecLifetime == InitConfigured /\ [][NextAuth]_vars

\* ------------------------------------------------------------------------
\* Properties of AuthService
\* ------------------------------------------------------------------------
\* some credential record has exactly this email and exactly this password
CredentialMatches(dto) ==
  \E i \in 1..Len(DemoUsers) :
    DemoUsers[i].email = dto.email /\ DemoUsers[i].password = dto.password

LoginReturned == req.op = "auth.login"
LoginFailed == LoginReturned /\ resp.kind = "error"
LoginSucceeded == LoginReturned /\ resp.kind = "ok"

\* C5: login succeeds if and only if some credential record has exactly the
\* given email and exactly the given password; otherwise it fails with the
\* authentication error and the result carries no token fields.
C5_LoginIffCredentialMatch ==
  LoginReturned =>
    /\ resp.kind \in {"ok", "error"}
    /\ resp.kind = "ok" <=> CredentialMatches(req.dto)
    /\ resp.kind = "error" =>
         /\ resp.error = "UnauthorizedException"
         /\ DOMAIN resp = {"kind", "error", "statusCode", "message"}

\* user@example.com / password123 was accepted with role student, and the
\* same email with a wrong password is a failing input of the model
C5_Witness ==
  /\ LoginSucceeded
  /\ req.dto = [email |-> DemoUserEmail, password |-> "password123"]
  /\ resp.body.user.role = "student"
  /\ ~CredentialMatches([email |-> DemoUserEmail, password |-> "wrong12"])

\* C6: a profile request made with the token that login issued for a
\* credential record returns that record's id, email and role.
C6_ProfileOfTokenIdentity ==
  (req.op = "auth.profile" /\ req.bearer # <<>> /\ req.bearer = held
     /\ resp.kind = "ok") =>
    /\ resp.body.id = held[1].sub
    /\ resp.body.email = held[1].email
    /\ resp.body.role = held[1].role

\* C7: a successful login issues claims {sub, email, role} of the matched
\* record, token_type Bearer, expires_in 604800 and a user snapshot
\* {id, email, name, role} of the same record; the password is in neither.
C7_LoginResponseShape ==
  LoginSucceeded =>
    LET user == DemoUsers[CHOOSE i \in 1..Len(DemoUsers) :
                            /\ DemoUsers[i].email = req.dto.email
                            /\ DemoUsers[i].password = req.dto.password]
        body == resp.body
        token == body.access_token
    IN /\ DOMAIN body = {"access_token", "token_type", "expires_in", "user"}
       /\ DOMAIN token = {"sub", "email", "role", "iat", "exp", "sig"}
       /\ token.sub = user.id /\ token.email = user.email
       /\ token.role = user.role
       /\ body.token_type = "Bearer"
       /\ body.expires_in = 604800
       /\ body.user = [id |-> user.id, email |-> user.email,
                       name |-> user.name, role |-> user.role]
       /\ \A text \in {token.role, token.sig, body.token_type, body.user.role} :
            text # req.dto.password

\* the third record logged in: not only the first record is covered
C7_Witness ==
  /\ LoginSucceeded
  /\ req.dto = [email |-> InstructorEmail, password |-> "instructor123"]
  /\ resp.body.user.id = 3

\* C8: two failed logins in a row, whatever field mismatched in each, have
\* the same observable outcome (error kind, status and message).
C8_FailureDoesNotRevealField ==
  [][(LoginFailed /\ LoginFailed') =>
       /\ resp'.error = resp.error
       /\ resp'.statusCode = resp.statusCode
       /\ resp'.message = resp.message]_vars

KnownEmail(email) == \E i \in 1..Len(DemoUsers) : DemoUsers[i].email = email

\* a known email with a wrong password has failed, after an earlier call
C8_Witness ==
  /\ LoginFailed
  /\ KnownEmail(req.dto.email)
  /\ calls >= 2

\* ------------------------------------------------------------------------
\* Properties of the stores
\* ------------------------------------------------------------------------
\* C2: no two stored users have the same email.
C2_EmailsUnique ==
  \A i, j \in 1..Len(users) : i # j => users[i].email # users[j].email

UsersCreateSucceeds ==
  /\ req'.op = "users.create" /\ resp'.kind = "ok"
  /\ Len(users') = Len(users) + 1

\* C3: of the create calls made with one email only one succeeds: no create
\* succeeds while a user with its email is already stored.
C3_OneSuccessPerEmail ==
  [][UsersCreateSucceeds => ~FindByEmail(users, req'.dto.email)]_vars

IsNotFound(r, what, id) == r = NotFoundException(what, id)

\* C4: once an id was removed from a store it is never stored again, findOne
\* on it fails with the not-found error, and no create returns it.
C4_DeletionFinal ==
  /\ \A id \in removedUserIds :
       /\ FindIndex(users, id) = 0
       /\ IsNotFound(UsersFindOneResult(users, id), "User", id)
  /\ \A id \in removedCourseIds :
       /\ FindIndex(courses, id) = 0
       /\ IsNotFound(CoursesFindOneResult(courses, id), "Course", id)
  /\ (req.op = "users.findOne" /\ req.id \in removedUserIds)
       => IsNotFound(resp, "User", req.id)
  /\ (req.op = "courses.findOne" /\ req.id \in removedCourseIds)
       => IsNotFound(resp, "Course", req.id)
  /\ (req.op = "users.create" /\ resp.kind = "ok")
       => resp.body.id \notin removedUserIds
  /\ (req.op = "courses.create" /\ resp.kind = "ok")
       => resp.body.id \notin removedCourseIds

\* the newest user was removed and a later create returned the next id
C4_Witness ==
  /\ UsersFirstId \in removedUserIds
  /\ req.op = "users.create" /\ resp.kind = "ok"
  /\ resp.body.id = UsersFirstId + 1

\* ------------------------------------------------------------------------
\* Properties of the access gate
\* ------------------------------------------------------------------------
ProtectedOps ==
  {"users.findAll", "users.findOne", "users.create", "users.update",
   "users.remove", "courses.findAll", "courses.findOne", "courses.create",
   "courses.update", "courses.remove", "auth.profile", "auth.logout"}

\* verification of a token: signed with the server's key and not expired
TokenVerifies(token, t) == token.sig = JwtSecret /\ t < token.exp

\* the header carries a bearer token that verifies
BearerVerifies(bearer, t) == bearer # <<>> /\ TokenVerifies(bearer[1], t)

\* C1: a request to a protected route that carries no bearer token, or one
\* whose signature or expiry check fails, is answered with the
\* authentication error (its handler does not run).
C1_GateRejects ==
  (req.op \in ProtectedOps /\ ~BearerVerifies(req.bearer, now)) =>
    /\ resp.kind = "error"
    /\ resp.error = "UnauthorizedException"

LogoutStep == req'.op = "auth.logout" /\ calls' = calls + 1

UserFilterInputs ==
  { [x \in {} |-> 0],
    [search |-> <<"L","M","S">>],
    [role |-> "instructor"],
    [status |-> "suspended"],
    [search |-> <<"o">>, role |-> "student", status |-> "active"] }

CourseFilterInputs ==
  { [x \in {} |-> 0],
    [level |-> "beginner", status |-> "published"],
    [status |-> "draft"],
    [instructorId |-> 2, minPrice |-> 8000],
    [minPrice |-> 0, maxPrice |-> 10000],
    [search |-> <<"R","E","A","C","T">>, level |-> "beginner",
     instructorId |-> 2, maxPrice |-> 14999] }

\* a user satisfies every filter the query supplies
UserPasses(u, f) ==
  /\ TruthyText(f, "search") => UserMatchesSearch(u, f.search)
  /\ TruthyEnum(f, "role") => u.role = f.role
  /\ TruthyEnum(f, "status") => u.status = f.status

\* a course satisfies every filter the query supplies
CoursePasses(c, f) ==
  /\ TruthyText(f, "search") => CourseMatchesSearch(c, f.search)
  /\ TruthyEnum(f, "level") => c.level = f.level
  /\ TruthyEnum(f, "status") => c.status = f.status
  /\ TruthyNum(f, "instructorId") => c.instructor.id = f.instructorId
  /\ Has(f, "minPrice") => c.price >= f.minPrice
  /\ Has(f, "maxPrice") => c.price <= f.maxPrice

\* ceil(total / limit)
PageCount(total, limit) == (total + limit - 1) \div limit

\* the data of pages 1..ceil(total/limit) of findAll, one after the other
UsersAllPages(us, f, limit) ==
  LET Result(p) == UsersFindAllResult(us, Spread(f, [page |-> p, limit |-> limit]))
      n == PageCount(Result(1).total, limit)
      Cat[p \in 0..n] == IF p = 0 THEN <<>> ELSE Cat[p - 1] \o Result(p).data
  IN Cat[n]

CoursesAllPages(cs, f, limit) ==
  LET Result(p) == CoursesFindAllResult(cs, Spread(f, [page |-> p, limit |-> limit]))
      n == PageCount(Result(1).total, limit)
      Cat[p \in 0..n] == IF p = 0 THEN <<>> ELSE Cat[p - 1] \o Result(p).data
  IN Cat[n]

\* C10: for every filter combination and every limit >= 1 the pages
\* 1..ceil(total/limit) of findAll, concatenated, are the stored entities
\* that pass the filters, each once, in the order of the store.
C10_PagesCoverFiltered ==
  /\ \A f \in UserFilterInputs, limit \in 1..MaxLimit :
       UsersAllPages(users, f, limit) = SelectSeq(users, LAMBDA u : UserPasses(u, f))
  /\ \A f \in CourseFilterInputs, limit \in 1..MaxLimit :
       CoursesAllPages(courses, f, limit) = SelectSeq(courses, LAMBDA c : CoursePasses(c, f))

\* findAll returned the second of several pages, after the store had grown
C10_Witness ==
  /\ req.op = "users.findAll"
  /\ req.query = [page |-> 2, limit |-> 1]
  /\ resp.body.total = Len(users) /\ Len(users) > Len(SeedUsers)
  /\ resp.body.data = <<users[2]>>

\* one more filter, added to a query
UserExtraFilters ==
  { [search |-> <<"a","d">>], [role |-> "student"], [status |-> "active"] }

CourseExtraFilters ==
  { [search |-> <<"t","y","p","e">>], [level |-> "advanced"],
    [status |-> "published"], [instructorId |-> 3],
    [minPrice |-> 8000], [maxPrice |-> 9999] }

\* the entities of a sequence, as a set
Range(seq) == {seq[i] : i \in 1..Len(seq)}

PageWindow(filtered, page, limit) ==
  LET first == (page - 1) * limit
      n == Max2(0, Min2(limit, Len(filtered) - first))
  IN [i \in 1..n |-> filtered[first + i]]

\* page sizes tried by the window property
WindowLimits == {1, 2, MaxLimit}

\* C12: for page >= 1 and limit >= 1 the data of findAll is exactly the
\* elements of the filtered sequence at indices [(page-1)*limit,
\* (page-1)*limit + limit), in order; a page beyond the last one has empty
\* data and is still a success.
C12_PageIsWindow ==
  /\ \A f \in UserFilterInputs, limit \in WindowLimits :
       LET filtered == SelectSeq(users, LAMBDA u : UserPasses(u, f))
       IN \A page \in 1..(PageCount(Len(filtered), limit) + 1) :
            UsersFindAllResult(users, Spread(f, [page |-> page, limit |-> limit])).data
              = PageWindow(filtered, page, limit)
  /\ \A f \in CourseFilterInputs, limit \in WindowLimits :
       LET filtered == SelectSeq(courses, LAMBDA c : CoursePasses(c, f))
       IN \A page \in 1..(PageCount(Len(filtered), limit) + 1) :
            CoursesFindAllResult(courses, Spread(f, [page |-> page, limit |-> limit])).data
              = PageWindow(filtered, page, limit)
  /\ (req.op \in {"users.findAll", "courses.findAll"}) => resp.kind = "ok"

\* findAll was asked for a page beyond the last one of a non-empty
\* filtered list and answered with empty data
C12_Witness ==
  /\ req.op = "courses.findAll" /\ resp.kind = "ok"
  /\ req.query.page = 2 /\ req.query.limit = 1
  /\ resp.body.total = 1 /\ resp.body.data = <<>>

\* pages asked for when total is compared across pages
TotalPages == {1, 3}

FindAllOps == {"users.findAll", "courses.findAll"}

\* the value the claim lets the service use for a page or limit parameter
ClampedTo(query, k, default) ==
  IF Has(query, k) /\ query[k] >= 1 THEN query[k] ELSE default

\* C14: findAll with a page or limit of zero or less is either rejected
\* with a validation error or served with the default (page 1, limit 10)
\* in its place: the page and limit returned are >= 1 and the data is the
\* window that the clamped values select.
C14_PagingPositive ==
  (req.op \in FindAllOps /\ resp.kind = "ok") =>
    LET page == ClampedTo(req.query, "page", 1)
        limit == ClampedTo(req.query, "limit", 10)
        filtered == IF req.op = "users.findAll"
                    THEN SelectSeq(users, LAMBDA u : UserPasses(u, req.query))
                    ELSE SelectSeq(courses, LAMBDA c : CoursePasses(c, req.query))
    IN /\ resp.body.page = page
       /\ resp.body.limit = limit
       /\ resp.body.data = PageWindow(filtered, page, limit)

\* ------------------------------------------------------------------------
\* Properties of update
\* ------------------------------------------------------------------------
\* a call was made and it was not the first step of UsersService.create
CallReturned == calls' = calls + 1 /\ pending' = pending

UsersUpdateOk == req'.op = "users.update" /\ resp'.kind = "ok" /\ CallReturned

CoursesUpdateOk ==
  req'.op = "courses.update" /\ resp'.kind = "ok" /\ CallReturned

\* the patch went into the stored entity: its fields are the old ones and
\* those of the patch, and every old field that is neither in the patch nor
\* derived has the value it had (so none turned into undefined)
OnlyChanged(old, new, patch, derived) ==
  /\ DOMAIN new = DOMAIN old \cup DOMAIN patch
  /\ \A k \in DOMAIN old \ (DOMAIN patch \cup derived) : new[k] = old[k]

\* C15: a successful update changes, in the target, only the fields present
\* in the patch, the derived fullName (users) and updatedAt; no other field
\* of the target changes or becomes undefined, and every other entity, the
\* other store and both counters stay as they were.
C15_UpdateFrame ==
  /\ [][UsersUpdateOk =>
          LET i == FindIndex(users, req'.id)
          IN /\ Len(users') = Len(users)
             /\ \A j \in 1..Len(users) : j # i => users'[j] = users[j]
             /\ OnlyChanged(users[i], users'[i], req'.dto,
                            {"fullName", "updatedAt"})
             /\ UNCHANGED <<courses, usersNextId, coursesNextId>>]_vars
  /\ [][CoursesUpdateOk =>
          LET i == FindIndex(courses, req'.id)
          IN /\ Len(courses') = Len(courses)
             /\ \A j \in 1..Len(courses) : j # i => courses'[j] = courses[j]
             /\ OnlyChanged(courses[i], courses'[i], req'.dto, {"updatedAt"})
             /\ UNCHANGED <<users, usersNextId, coursesNextId>>]_vars

\* an update of the phone alone went through on a later day: the phone and
\* updatedAt are new, the names and the status are the old ones
C15_Witness ==
  /\ req.op = "users.update" /\ resp.kind = "ok"
  /\ req.dto = [phone |-> "+15550111"]
  /\ resp.body.phone = "+15550111"
  /\ resp.body.updatedAt > resp.body.createdAt
  /\ resp.body.id = 3 /\ resp.body.lastName = <<"J","o","h","n","s","o","n">>
  /\ resp.body.status = "active" /\ Len(users) > Len(SeedUsers)

UpdateStep == req'.op \in {"users.update", "courses.update"} /\ CallReturned

\* id and createdAt of every stored entity, in the order of the store
Identity(store) == [i \in 1..Len(store) |-> <<store[i].id, store[i].createdAt>>]

\* C16: an update leaves the id and the createdAt of every stored entity as
\* they were before it, also when its body names an id or a createdAt.
C16_IdAndCreatedAtFixed ==
  [][UpdateStep => /\ Identity(users') = Identity(users)
                   /\ Identity(courses') = Identity(courses)]_vars

\* an update whose body names id and createdAt was made on a user that an
\* earlier update had changed; the user still has its id and createdAt
C16_Witness ==
  /\ req.op = "users.update" /\ Has(req.dto, "id") /\ Has(req.dto, "createdAt")
  /\ \E i \in 1..Len(users) :
       /\ users[i].id = req.id /\ req.dto.id # req.id
       /\ users[i].createdAt # req.dto.createdAt
       /\ users[i].updatedAt > users[i].createdAt

\* C17: every stored user has fullName = firstName + " " + lastName, after
\* any sequence of creates and updates, also after an update that patches
\* one name part alone or patches a name part to the empty string.
C17_FullNameDerived ==
  \A i \in 1..Len(users) :
    users[i].fullName = users[i].firstName \o <<" ">> \o users[i].lastName

\* ------------------------------------------------------------------------
\* Properties of calls on an id that is not stored
\* ------------------------------------------------------------------------
AbsentUserStep ==
  /\ req'.op \in {"users.findOne", "users.update", "users.remove"}
  /\ CallReturned
  /\ \A i \in 1..Len(users) : users[i].id # req'.id

AbsentCourseStep ==
  /\ req'.op \in {"courses.findOne", "courses.update", "courses.remove"}
  /\ CallReturned
  /\ \A i \in 1..Len(courses) : courses[i].id # req'.id

\* C18: findOne, update and remove called with an id that is not stored
\* each fail with the not-found error and leave the contents and order of
\* both stores and both id counters as they were.
C18_AbsentIdNotFound ==
  /\ [][AbsentUserStep =>
          /\ IsNotFound(resp', "User", req'.id)
          /\ UNCHANGED <<users, usersNextId, courses, coursesNextId>>]_vars
  /\ [][AbsentCourseStep =>
          /\ IsNotFound(resp', "Course", req'.id)
          /\ UNCHANGED <<users, usersNextId, courses, coursesNextId>>]_vars

\* a removed course was asked to be removed once more, after the store had
\* grown, and the answer was the not-found error
C18_Witness ==
  /\ req.op = "courses.remove" /\ resp.kind = "error"
  /\ req.id \in removedCourseIds
  /\ coursesNextId > CoursesFirstId
  /\ Len(courses) = Len(SeedCourses)

\* ------------------------------------------------------------------------
\* Properties of create and of the course life cycle
\* ------------------------------------------------------------------------
CoursesCreateOk ==
  req'.op = "courses.create" /\ resp'.kind = "ok" /\ CallReturned

UsersCreateOk ==
  /\ req'.op = "users.create" /\ resp'.kind = "ok"
  /\ UNCHANGED calls /\ Len(pending') = Len(pending) - 1

\* C19: the course that CoursesService.create returns has status draft,
\* rating 0 and enrolledStudents 0 whatever the draft holds (a status, a
\* rating, an enrolment count), and is the course appended to the store;
\* the user that UsersService.create returns and stores has status active.
C19_CreatedDraftAndActive ==
  /\ [][CoursesCreateOk =>
          /\ resp'.body.status = "draft"
          /\ resp'.body.rating = 0
          /\ resp'.body.enrolledStudents = 0
          /\ courses' = Append(courses, resp'.body)]_vars
  /\ [][UsersCreateOk =>
          /\ resp'.body.status = "active"
          /\ users' = Append(users, resp'.body)]_vars

\* a draft that asked for status published was created and stored as draft
C19_Witness ==
  /\ req.op = "courses.create" /\ resp.kind = "ok"
  /\ Has(req.dto, "status") /\ req.dto.status = "published"
  /\ courses[Len(courses)] = resp.body
  /\ courses[Len(courses)].status = "draft"

\* findAll was asked for the published courses
PublishedListing ==
  /\ req.op = "courses.findAll" /\ resp.kind = "ok"
  /\ Has(req.query, "status") /\ req.query.status = "published"

\* the course at position i was made by create and has been published
CreatedPublished(i) ==
  courses[i].id >= CoursesFirstId /\ courses[i].status = "published"

\* how many published courses the store holds at positions 1..i
PublishedUpTo(i) ==
  Cardinality({j \in 1..i : courses[j].status = "published"})

\* C20 as stated: once a created course has been published, a findAll with
\* status=published has that course in its data, whatever else is stored.
C20_PublishedListed ==
  PublishedListing =>
    \A i \in 1..Len(courses) :
      CreatedPublished(i) => courses[i] \in Range(resp.body.data)

\* C20: a successful update(c, {status: published}) stores course c as
\* published, and a later findAll with status=published counts c in total
\* and has c in its data exactly when c, the k-th published course of the
\* store, falls on the page asked for: (page-1)*limit < k <= page*limit.
C20_PublishedOnItsPage ==
  /\ (req.op = "courses.update" /\ resp.kind = "ok"
        /\ Has(req.dto, "status") /\ req.dto.status = "published") =>
       \E i \in 1..Len(courses) :
         /\ courses[i].id = req.id /\ courses[i] = resp.body
         /\ courses[i].status = "published"
  /\ PublishedListing =>
       LET page == ClampedTo(req.query, "page", 1)
           limit == ClampedTo(req.query, "limit", 10)
       IN \A i \in 1..Len(courses) :
            CreatedPublished(i) =>
              LET k == PublishedUpTo(i)
              IN /\ resp.body.total >= k
                 /\ courses[i] \in Range(resp.body.data)
                      <=> ((page - 1) * limit < k /\ k <= page * limit)

\* a course was created and published, and the listing of the published
\* courses with the default page and limit has it as its fourth entry
C20_Witness ==
  /\ PublishedListing /\ req.query = [status |-> "published"]
  /\ resp.body.total = Len(SeedCourses) + 1
  /\ \E i \in 1..Len(courses) :
       CreatedPublished(i) /\ resp.body.data[Len(resp.body.data)] = courses[i]

\* ------------------------------------------------------------------------
\* Properties of the update timestamp
\* ------------------------------------------------------------------------
\* C21: every successful update leaves the updatedAt of its target strictly
\* greater than it was before the call.
C21_UpdatedAtIncreases ==
  /\ [][UsersUpdateOk =>
          LET i == FindIndex(users, req'.id)
          IN users'[i].updatedAt > users[i].updatedAt]_vars
  /\ [][CoursesUpdateOk =>
          LET i == FindIndex(courses, req'.id)
          IN courses'[i].updatedAt > courses[i].updatedAt]_vars

\* ------------------------------------------------------------------------
\* Properties of the reads
\* ------------------------------------------------------------------------
ReadOps ==
  {"users.findOne", "users.findAll", "courses.findOne", "courses.findAll"}

ReadStep == req'.op \in ReadOps /\ CallReturned

\* the same findOne as the call before it, nothing having returned between
\* the two
RepeatedFindOne ==
  /\ ReadStep
  /\ req.op \in {"users.findOne", "courses.findOne"}
  /\ req' = req

\* C22: a findOne that repeats the call before it, with no create, update
\* or remove between the two, returns the same value, and no findOne or
\* findAll changes the contents or order of a store or an id counter.
C22_ReadsArePure ==
  /\ [][RepeatedFindOne => resp' = resp]_vars
  /\ [][ReadStep =>
          UNCHANGED <<users, usersNextId, courses, coursesNextId>>]_vars

\* user 3 was updated and then read; the read returned the stored user
C22_Witness ==
  /\ req.op = "users.findOne" /\ req.id = 3 /\ resp.kind = "ok"
  /\ resp.body = users[FindIndex(users, 3)]
  /\ resp.body.status = "suspended"

\* ------------------------------------------------------------------------
\* Properties of the id counters and of the order of the stores
\* ------------------------------------------------------------------------
\* the ids of a store, in its order
IdsOf(store) == [i \in 1..Len(store) |-> store[i].id]

\* no id occurs twice in a store
DistinctIds(store) ==
  \A i, j \in 1..Len(store) : store[i].id = store[j].id => i = j

\* every id stored or removed so far is the id of a seeded entity
NoneCreated(store, removed) ==
  /\ \A i \in 1..Len(store) : store[i].id <= 3
  /\ \A id \in removed : id <= 3

\* C23: in each store the stored ids are distinct and the counter is greater
\* than every id stored or removed so far; a successful create gives the
\* new entity the counter's value and advances the counter by one, the
\* first created entity has id 4, and no step lowers a counter.
C23_CounterAllocatesIds ==
  /\ [](/\ DistinctIds(users) /\ DistinctIds(courses)
        /\ \A i \in 1..Len(users) : users[i].id < usersNextId
        /\ \A i \in 1..Len(courses) : courses[i].id < coursesNextId
        /\ \A id \in removedUserIds : id < usersNextId
        /\ \A id \in removedCourseIds : id < coursesNextId)
  /\ [][UsersCreateOk =>
          /\ resp'.body.id = usersNextId
          /\ usersNextId' = usersNextId + 1
          /\ NoneCreated(users, removedUserIds) => resp'.body.id = 4]_vars
  /\ [][CoursesCreateOk =>
          /\ resp'.body.id = coursesNextId
          /\ coursesNextId' = coursesNextId + 1
          /\ NoneCreated(courses, removedCourseIds) => resp'.body.id = 4]_vars
  /\ [][usersNextId' >= usersNextId /\ coursesNextId' >= coursesNextId]_vars

\* after a removal, a create took the counter's value 4 and left it at 5
C23_Witness ==
  /\ req.op = "courses.create" /\ resp.kind = "ok"
  /\ removedCourseIds # {}
  /\ resp.body.id = 4 /\ coursesNextId = 5
  /\ Len(courses) = Len(SeedCourses)

\* UsersService.create threw the conflict error
UsersCreateConflict ==
  /\ req'.op = "users.create" /\ resp' = ConflictException
  /\ UNCHANGED calls /\ Len(pending') = Len(pending) - 1

\* C24: a create that fails with the conflict error leaves the user list
\* and the id counter as they were, so no id is used up: the counter is
\* always one above the last id that was given out, which is the id the
\* next successful create gets.
C24_ConflictConsumesNoId ==
  /\ [][UsersCreateConflict => UNCHANGED <<users, usersNextId>>]_vars
  /\ [](usersNextId - 1 \in {users[i].id : i \in 1..Len(users)} \cup removedUserIds)
  /\ [][UsersCreateOk => resp'.body.id = usersNextId]_vars

\* a create was rejected for its email after another create had succeeded:
\* the counter is still one above the id of the user created before
C24_Witness ==
  /\ req.op = "users.create" /\ resp = ConflictException
  /\ Len(users) > Len(SeedUsers)
  /\ usersNextId = users[Len(users)].id + 1

\* a sequence of ids in the order in which the counter gave them out
Ascending(ids) == \A i, j \in 1..Len(ids) : i < j => ids[i] < ids[j]

EmptyQuery == [x \in {} |-> 0]

UsersRemoveOk == req'.op = "users.remove" /\ resp'.kind = "ok" /\ CallReturned

CoursesRemoveOk ==
  req'.op = "courses.remove" /\ resp'.kind = "ok" /\ CallReturned

\* C25: each store is in insertion order in every reachable state, and that
\* is the order of the unfiltered listing: create appends at the end,
\* update keeps every entity at its position, and remove takes one entity
\* out and leaves the others in their relative order.
C25_InsertionOrder ==
  /\ [](/\ Ascending(IdsOf(users)) /\ Ascending(IdsOf(courses))
        /\ UsersFindAllResult(users, EmptyQuery).data = users
        /\ CoursesFindAllResult(courses, EmptyQuery).data = courses)
  /\ [][UsersCreateOk =>
          IdsOf(users') = Append(IdsOf(users), resp'.body.id)]_vars
  /\ [][CoursesCreateOk =>
          IdsOf(courses') = Append(IdsOf(courses), resp'.body.id)]_vars
  /\ [][UpdateStep => /\ IdsOf(users') = IdsOf(users)
                      /\ IdsOf(courses') = IdsOf(courses)]_vars
  /\ [][UsersRemoveOk =>
          users' = SelectSeq(users, LAMBDA u : u.id # req'.id)]_vars
  /\ [][CoursesRemoveOk =>
          courses' = SelectSeq(courses, LAMBDA c : c.id # req'.id)]_vars

\* user 3 was removed after two users had been created: the others are
\* stored in the order they had
C25_Witness ==
  /\ req.op = "users.remove" /\ req.id = 3 /\ resp.kind = "ok"
  /\ IdsOf(users) = <<1, 2, 4, 5>>

\* ------------------------------------------------------------------------
\* Properties of overlapping calls
\* ------------------------------------------------------------------------
\* the call that returns in this step is an update or a remove of id
Targets(ops, id) == req'.op \in ops /\ req'.id = id /\ CallReturned

\* every stored entity is stored unchanged after the step, unless the step
\* is an update or a remove of that entity
OnlyTargetChanges(store, storeAfter, ops) ==
  \A i \in 1..Len(store) :
    \/ Targets(ops, store[i].id)
    \/ \E j \in 1..Len(storeAfter) : storeAfter[j] = store[i]

\* C26: however create, update and remove calls overlap (a call is
\* suspended only at its await), no two stored entities have the same id,
\* a successful update stores what it returns, and a stored entity changes
\* only in an update or remove of that entity: a call that began earlier
\* and resumes later does not undo it.
C26_OverlapKeepsIdsAndUpdates ==
  /\ [](DistinctIds(users) /\ DistinctIds(courses))
  /\ [][UsersUpdateOk =>
          users'[FindIndex(users, req'.id)] = resp'.body]_vars
  /\ [][CoursesUpdateOk =>
          courses'[FindIndex(courses, req'.id)] = resp'.body]_vars
  /\ [][OnlyTargetChanges(users, users', {"users.update", "users.remove"})]_vars
  /\ [][OnlyTargetChanges(courses, courses',
                          {"courses.update", "courses.remove"})]_vars

\* an update returned while two create calls were suspended at their await
C26_Witness ==
  /\ Len(pending) = 2
  /\ req.op = "users.update" /\ resp.kind = "ok"
  /\ users[FindIndex(users, req.id)] = resp.body

\* ------------------------------------------------------------------------
\* Properties relating login to the user store
\* ------------------------------------------------------------------------
\* the email and password pairs that login accepts when the process starts
AcceptedAtStart ==
  { [email |-> DemoUserEmail, password |-> "password123"],
    [email |-> AdminEmail, password |-> "admin123"],
    [email |-> InstructorEmail, password |-> "instructor123"] }

\* C27: the credentials login accepts are the ones it accepted at the
\* start, whatever has been done to the user store: a user made by
\* UsersService.create is turned away with the password given at creation,
\* and a seeded account whose user record was removed is still let in.
C27_CredentialsFixed ==
  (req.op = "auth.login") =>
    (resp.kind = "ok" <=> req.dto \in AcceptedAtStart)

\* the created user is stored with its email, and a login with that email
\* and the password given at creation was turned away
C27_Witness ==
  /\ req.op = "auth.login" /\ resp.kind = "error"
  /\ req.dto = [email |-> ListingUserDto.email,
                password |-> ListingUserDto.password]
  /\ FindByEmail(users, req.dto.email)

\* C28: for an email that is both in the credential table and in the user
\* store, the subject id and the role of the token that login issues are
\* the id and the role of the stored user with that email.
C28_TokenAgreesWithStore ==
  LoginSucceeded =>
    \A i \in 1..Len(users) :
      users[i].email = req.dto.email =>
        /\ resp.body.access_token.sub = users[i].id
        /\ resp.body.access_token.role = users[i].role

\* C29: the expires_in that login returns is the time for which the token
\* it returns was signed, from its issue to its expiry, whatever the
\* configured token lifetime is (a day of the model's clock is 86400
\* seconds).
C29_ExpiresInIsLifetime ==
  LoginSucceeded =>
    resp.body.expires_in
      = (resp.body.access_token.exp - resp.body.access_token.iat) * 86400

\* C30: the instructor name and email kept in a course are those of the
\* stored user whose id is the course's instructor.id, in the seeded courses
\* and in every course at the moment create returns it.
C30_InstructorOfUser ==
  /\ (req.op = "none") =>
       \A i \in 1..Len(courses) :
         \E j \in 1..Len(users) :
           /\ users[j].id = courses[i].instructor.id
           /\ users[j].fullName = courses[i].instructor.name
           /\ users[j].email = courses[i].instructor.email
  /\ (req.op = "courses.create" /\ resp.kind = "ok") =>
       \E j \in 1..Len(users) :
         /\ users[j].id = resp.body.instructor.id
         /\ users[j].fullName = resp.body.instructor.name
         /\ users[j].email = resp.body.instructor.email





















====
